---- MODULE Spec2Model ----
(***************************************************************************)
(* Model of src/app.py: the resume structuring and export pipeline.        *)
(*                                                                         *)
(* A Python str is a sequence of one-character strings.  The em dash       *)
(* (U+2014), which the module language cannot write inside a string, is    *)
(* the single character EMDASH.  A Python value whose type matters         *)
(* (what json.loads returns, what the handlers pass around) is a record    *)
(* [kind, val] with kind its Python type name.                             *)
(***************************************************************************)
EXTENDS Integers, Sequences, FiniteSets, TLC

VARIABLES
    OPENAI_AVAILABLE,   \* src/app.py:10-14, set once at import
    WEASY_AVAILABLE,    \* src/app.py:17-21
    DOCX_AVAILABLE,     \* src/app.py:23-28
    request,            \* the HTTP request being served
    world,              \* what the external API and the PDF library do if called
    pc,                 \* "start" before the handler runs, "done" after
    response,           \* what the handler returned or raised
    calls               \* the external and fallback calls made, in order

vars == <<OPENAI_AVAILABLE, WEASY_AVAILABLE, DOCX_AVAILABLE, request, world, pc, response, calls>>

(***************************************************************************)
(* Bounds of the checked input space.                                      *)
(***************************************************************************)
MaxSkillsLen == 6
MaxBlocksLen == 7
MaxPartsLen == 5
MaxDescLen == 122

(***************************************************************************)
(* Program constants.                                                      *)
(***************************************************************************)
SUMMARY_SKILLS == 3
BULLET_MAX == 120
BULLET_KEEP == 117
LINE_MAX == 95

EMDASH == "EMDASH"
Whitespace == {" ", "\t", "\n"}

WITH_EXPERIENCE_IN == <<" ", "w", "i", "t", "h", " ", "e", "x", "p", "e", "r", "i", "e", "n", "c", "e", " ", "i", "n", " ">>
SERVED_AS == <<"S", "e", "r", "v", "e", "d", " ", "a", "s", " ">>
AT == <<" ", "a", "t", " ">>
DELIVERED == <<"D", "e", "l", "i", "v", "e", "r", "e", "d", " ", "k", "e", "y", " ", "r", "e", "s", "u", "l", "t", "s">>
COLLABORATED == <<"C", "o", "l", "l", "a", "b", "o", "r", "a", "t", "e", "d", " ", "a", "c", "r", "o", "s", "s", " ", "t", "e", "a", "m", "s">>
ELLIPSIS == <<".", ".", ".">>
COMMA == <<",">>
COMMA_SPACE == <<",", " ">>
BARBAR == <<"|", "|">>
DASH == <<EMDASH>>
PERIOD == <<".">>

(***************************************************************************)
(* Python str primitives.                                                  *)
(***************************************************************************)
Min(a, b) == IF a <= b THEN a ELSE b

\* s[:n]
Prefix(s, n) == SubSeq(s, 1, Min(n, Len(s)))

\* s[n:]
Suffix(s, n) == SubSeq(s, n + 1, Len(s))

RECURSIVE lstrip(_)
lstrip(s) ==
    IF s # <<>> /\ Head(s) \in Whitespace THEN lstrip(Tail(s)) ELSE s

RECURSIVE rstrip(_)
rstrip(s) ==
    IF s # <<>> /\ s[Len(s)] \in Whitespace THEN rstrip(SubSeq(s, 1, Len(s) - 1)) ELSE s

\* str.strip()
strip(s) == rstrip(lstrip(s))

\* str.find(sep): the first index (from 1) at which sep occurs in s, 0 if none
find(s, sep) ==
    LET hits == {i \in 1..(Len(s) - Len(sep) + 1) : SubSeq(s, i, i + Len(sep) - 1) = sep}
    IN  IF hits = {} THEN 0 ELSE CHOOSE i \in hits : \A j \in hits : i <= j

\* str.split(sep): left to right, non-overlapping, always at least one piece
RECURSIVE split(_, _)
split(s, sep) ==
    LET i == find(s, sep)
    IN  IF i = 0 THEN <<s>>
        ELSE <<SubSeq(s, 1, i - 1)>> \o split(Suffix(s, i + Len(sep) - 1), sep)

\* sep.join(items)
RECURSIVE join(_, _)
join(sep, items) ==
    IF items = <<>> THEN <<>>
    ELSE IF Len(items) = 1 THEN items[1]
    ELSE items[1] \o sep \o join(sep, Tail(items))

\* [f(x) for x in items]
stripAll(items) == [i \in 1..Len(items) |-> strip(items[i])]

\* [x for x in items if x]
RECURSIVE nonEmpty(_)
nonEmpty(items) ==
    IF items = <<>> THEN <<>>
    ELSE IF Head(items) # <<>> THEN <<Head(items)>> \o nonEmpty(Tail(items))
    ELSE nonEmpty(Tail(items))

(***************************************************************************)
(* fallback_structure, src/app.py:81-103.                                  *)
(***************************************************************************)
\* line 83
summary_of(data) ==
    data.title \o WITH_EXPERIENCE_IN
        \o join(COMMA_SPACE, Prefix(stripAll(split(data.skills, COMMA)), SUMMARY_SKILLS))
        \o PERIOD

\* line 97 cutting at the limit instead of three characters before it
truncated_desc_at_limit(desc) ==
    IF Len(desc) <= BULLET_MAX THEN desc ELSE Prefix(desc, BULLET_MAX) \o ELLIPSIS

\* line 97, the first bullet of a block with a description
truncated_desc(desc) ==
    IF Len(desc) <= BULLET_MAX THEN desc ELSE Prefix(desc, BULLET_KEEP) \o ELLIPSIS

\* lines 90-101 with role and company exchanged in the placeholder
experience_entry_swapped(block) ==
    LET parts   == stripAll(split(block, DASH))
        company == IF Len(parts) > 0 THEN parts[1] ELSE <<>>
        role    == IF Len(parts) > 1 THEN parts[2] ELSE <<>>
        dates   == IF Len(parts) > 2 THEN parts[3] ELSE <<>>
        desc    == IF Len(parts) > 3 THEN parts[4] ELSE <<>>
        first   == IF desc # <<>> THEN truncated_desc(desc)
                   ELSE SERVED_AS \o company \o AT \o role
    IN  [company |-> company, role |-> role, dates |-> dates,
         bullets |-> <<first>> \o <<DELIVERED, COLLABORATED>>]

\* lines 90-101, the entry of one stripped, non-empty block
experience_entry(block) ==
    LET parts   == stripAll(split(block, DASH))
        company == IF Len(parts) > 0 THEN parts[1] ELSE <<>>
        role    == IF Len(parts) > 1 THEN parts[2] ELSE <<>>
        dates   == IF Len(parts) > 2 THEN parts[3] ELSE <<>>
        desc    == IF Len(parts) > 3 THEN parts[4] ELSE <<>>
        first   == IF desc # <<>> THEN truncated_desc(desc)
                   ELSE SERVED_AS \o role \o AT \o company
    IN  [company |-> company, role |-> role, dates |-> dates,
         bullets |-> <<first>> \o <<DELIVERED, COLLABORATED>>]

\* lines 86-89 without the strip of line 87
keeps_block_unstripped(block) == block # <<>>

\* lines 86-89, whether the loop keeps a block
keeps_block(block) == strip(block) # <<>>

\* lines 84-101, the loop over raw.split("||")
RECURSIVE ex_list_of(_)
ex_list_of(blocks) ==
    IF blocks = <<>> THEN <<>>
    ELSE IF keeps_block(Head(blocks))
         THEN <<experience_entry(strip(Head(blocks)))>> \o ex_list_of(Tail(blocks))
         ELSE ex_list_of(Tail(blocks))

\* line 102 without its "if s.strip()" filter
skills_line_unfiltered(data) ==
    join(COMMA_SPACE, stripAll(split(data.skills, COMMA)))

\* line 102
skills_line_of(data) ==
    join(COMMA_SPACE, nonEmpty(stripAll(split(data.skills, COMMA))))

fallback_structure(data) ==
    [summary     |-> summary_of(data),
     experiences |-> ex_list_of(split(data.experience_raw, BARBAR)),
     skills_line |-> skills_line_of(data)]

(***************************************************************************)
(* Python values.                                                          *)
(***************************************************************************)
None == [kind |-> "NoneType"]
PyStr(s) == [kind |-> "str", val |-> s]
PyInt(n) == [kind |-> "int", val |-> n]
PyBool(b) == [kind |-> "bool", val |-> b]
PyList(l) == [kind |-> "list", val |-> l]
PyDict(d) == [kind |-> "dict", val |-> d]
EmptyDict == PyDict([k \in {} |-> None])

\* bool(v), what "not v" negates
Truthy(v) ==
    CASE v.kind = "NoneType" -> FALSE
      [] v.kind = "bool" -> v.val
      [] v.kind = "int" -> v.val # 0
      [] v.kind = "str" -> v.val # <<>>
      [] v.kind = "list" -> v.val # <<>>
      [] v.kind = "dict" -> DOMAIN v.val # {}

\* whether v.get(...) exists; calling it on anything else raises AttributeError
HasGet(v) == v.kind = "dict"

\* d.get(k, default) of a dict d
Get(d, k, default) == IF k \in DOMAIN d.val THEN d.val[k] ELSE default

\* whether v[:n] is defined; on anything else it raises TypeError
Sliceable(v) == v.kind \in {"str", "list"}

\* whether "for x in v" is defined
Iterable(v) == v.kind \in {"str", "list", "dict"}

\* the dict fallback_structure returns, as Python values
ToPy(st) ==
    PyDict([summary     |-> PyStr(st.summary),
            experiences |-> PyList([i \in 1..Len(st.experiences) |->
                PyDict([company |-> PyStr(st.experiences[i].company),
                        role    |-> PyStr(st.experiences[i].role),
                        dates   |-> PyStr(st.experiences[i].dates),
                        bullets |-> PyList([j \in 1..Len(st.experiences[i].bullets) |->
                                        PyStr(st.experiences[i].bullets[j])])])]),
            skills_line |-> PyStr(st.skills_line)])

(***************************************************************************)
(* Template lookup, src/app.py:43-49 and 105-107.                          *)
(***************************************************************************)
TPL_MAP ==
    [template1        |-> "pro_minimal",
     template2        |-> "modern_creative",
     template3        |-> "tech_profile",
     template_exec    |-> "executive",
     template_founder |-> "founder"]

\* the files of templates/resume_templates/ the map names
TemplateFiles == {TPL_MAP[k] : k \in DOMAIN TPL_MAP}

\* request.form.get("template_choice") of a request without the field
NoTemplate == "None"

NoRender == [template |-> "none"]

render_resume_html(chosen_template, form_data, ai_struct) ==
    LET tpl == IF chosen_template \in DOMAIN TPL_MAP THEN TPL_MAP[chosen_template]
               ELSE chosen_template
    IN  [exc  |-> IF tpl \in TemplateFiles THEN "" ELSE "TemplateNotFound",
         html |-> [template |-> tpl, form |-> form_data, ai |-> ai_struct]]

(***************************************************************************)
(* call_openai_for_resume, src/app.py:51-79.  outcome is what the external *)
(* API does if it is called: it raises, or it answers with a text that is  *)
(* or is not JSON.                                                         *)
(***************************************************************************)
\* lines 55-79 without the try/except of lines 55 and 77-79
call_openai_unguarded(api_key, available, outcome) ==
    IF ~available \/ api_key = <<>>
    THEN [ret |-> None, exc |-> "", invoked |-> FALSE]
    ELSE IF outcome.kind = "json"
         THEN [ret |-> outcome.value, exc |-> "", invoked |-> TRUE]
         ELSE [ret |-> None,
               exc |-> IF outcome.kind = "api_error" THEN "OpenAIError" ELSE "JSONDecodeError",
               invoked |-> TRUE]

call_openai_for_resume(api_key, available, outcome) ==
    IF ~available \/ api_key = <<>>
    THEN [ret |-> None, exc |-> "", invoked |-> FALSE]
    ELSE IF outcome.kind = "json"
         THEN [ret |-> outcome.value, exc |-> "", invoked |-> TRUE]
         ELSE [ret |-> None, exc |-> "", invoked |-> TRUE]

(***************************************************************************)
(* index, src/app.py:154-200.                                              *)
(***************************************************************************)
NoBody == [producer |-> "none"]
NoResponse ==
    [status |-> "none", exc |-> "", mimetype |-> "", ext |-> "", stem |-> None,
     body |-> NoBody, rendered |-> NoRender]
Raised(exc, rendered) ==
    [status |-> "error", exc |-> exc, mimetype |-> "", ext |-> "", stem |-> None,
     body |-> NoBody, rendered |-> rendered]

\* lines 158-170
collect_form(raw) ==
    [name           |-> strip(raw.name),
     title          |-> strip(raw.title),
     skills         |-> strip(raw.skills),
     experience_raw |-> strip(raw.experience)]

\* line 187
wants_openai(apikey, available) == apikey # <<>> /\ available

\* line 189 also replacing whatever is not a dict
needs_fallback_unless_dict(ai_struct) == ~Truthy(ai_struct) \/ ai_struct.kind # "dict"

\* line 189
needs_fallback(ai_struct) == ~Truthy(ai_struct)

index(req, available, outcome) ==
    IF req.method = "GET"
    THEN [response |-> [NoResponse EXCEPT !.status = "ok", !.mimetype = "text/html",
                                          !.body = [producer |-> "index.html"]],
          calls |-> <<>>]
    ELSE
    LET form   == collect_form(req.form)
        apikey == strip(req.apikey)
        asked  == wants_openai(apikey, available)
        r      == call_openai_for_resume(apikey, available, outcome)
        ai1    == IF asked THEN r.ret ELSE None
        local  == needs_fallback(ai1)
        ai2    == IF local THEN ToPy(fallback_structure(form)) ELSE ai1
        page   == render_resume_html(req.template_choice, form, ai2)
        pre    == (IF asked /\ r.invoked THEN <<"openai">> ELSE <<>>)
    IN  IF asked /\ r.exc # ""
        THEN [response |-> Raised(r.exc, NoRender), calls |-> pre]
        ELSE [response |->
                IF page.exc # "" THEN Raised(page.exc, page.html)
                ELSE [NoResponse EXCEPT !.status = "ok", !.mimetype = "text/html",
                                        !.body = [producer |-> "result.html"],
                                        !.rendered = page.html],
              calls |-> pre \o (IF local THEN <<"fallback_structure">> ELSE <<>>)
                            \o <<"render_resume_html">>]

(***************************************************************************)
(* json.loads(request.form.get(k)), src/app.py:204-205 and 226-227.  A     *)
(* posted field is absent, is text that is not JSON, or is the JSON text   *)
(* of a value.                                                             *)
(***************************************************************************)
MissingField == [kind |-> "missing", value |-> None]
MalformedField == [kind |-> "malformed", value |-> None]
JsonField(v) == [kind |-> "json", value |-> v]

json_loads(field) ==
    [exc   |-> CASE field.kind = "missing" -> "TypeError"
                 [] field.kind = "malformed" -> "JSONDecodeError"
                 [] OTHER -> "",
     value |-> field.value]

\* str(v) inside an f-string, for the values a field of the posted JSON takes
py_str(v) ==
    CASE v.kind = "str" -> v.val
      [] v.kind = "NoneType" -> <<"N", "o", "n", "e">>
      [] v.kind = "bool" -> IF v.val THEN <<"T", "r", "u", "e">> ELSE <<"F", "a", "l", "s", "e">>
      [] v.kind = "int" -> <<<<"0", "1", "2", "3", "4", "5", "6", "7", "8", "9">>[v.val + 1]>>

(***************************************************************************)
(* reportlab_pdf_bytes, src/app.py:136-152.                                *)
(***************************************************************************)
\* lines 144-149: the pages shown while drawing from vertical position y
RECURSIVE pages_shown(_, _)
pages_shown(lines, y) ==
    IF lines = <<>> THEN 0
    ELSE IF y - 14 < 80 THEN 1 + pages_shown(Tail(lines), 750)
    ELSE pages_shown(Tail(lines), y - 14)

reportlab_pdf_bytes(lines) ==
    IF \E i \in 1..Len(lines.lines) : ~Sliceable(lines.lines[i])
    THEN [exc |-> "TypeError", body |-> NoBody]
    ELSE [exc  |-> "",
          body |-> [producer |-> "reportlab",
                    title    |-> lines.title_line,
                    drawn    |-> [i \in 1..Len(lines.lines) |-> Prefix(lines.lines[i].val, LINE_MAX)],
                    pages    |-> 1 + pages_shown(lines.lines, 750 - 24),
                    nonempty |-> TRUE]]

(***************************************************************************)
(* download_pdf, src/app.py:202-222.  weasy is what HTML(...).write_pdf()  *)
(* does if it is called: "ok" (it returns the PDF's bytes) or "raise".     *)
(***************************************************************************)
PDF_MIME == "application/pdf"
Sent(mimetype, ext, stem, body, rendered) ==
    [status |-> "ok", exc |-> "", mimetype |-> mimetype, ext |-> ext, stem |-> stem,
     body |-> body, rendered |-> rendered]

\* lines 213-217 without the return of line 215
weasy_attempt_no_return(form_data, page, weasy) ==
    [returned |-> FALSE, response |-> NoResponse]

\* lines 213-217: the try block; returned is FALSE when it raised and was caught
weasy_attempt(form_data, page, weasy) ==
    IF weasy = "ok" /\ HasGet(form_data)
    THEN [returned |-> TRUE,
          response |-> Sent(PDF_MIME, ".pdf", Get(form_data, "name", PyStr(<<"r", "e", "s", "u", "m", "e">>)),
                            [producer |-> "weasyprint", nonempty |-> TRUE], page.html)]
    ELSE [returned |-> FALSE, response |-> NoResponse]

\* lines 219-222
reportlab_fallback(form_data, ai_struct, page) ==
    IF ~HasGet(form_data) \/ ~HasGet(ai_struct)
    THEN [response |-> Raised("AttributeError", page.html), calls |-> <<>>]
    ELSE LET lines == [title_line |-> Get(form_data, "name", PyStr(<<>>)),
                       lines |-> <<Get(ai_struct, "summary", PyStr(<<>>)),
                                   Get(ai_struct, "skills_line", PyStr(<<>>))>>]
             buf   == reportlab_pdf_bytes(lines)
         IN  IF buf.exc # ""
             THEN [response |-> Raised(buf.exc, page.html), calls |-> <<"reportlab_pdf_bytes">>]
             ELSE [response |-> Sent(PDF_MIME, ".pdf",
                                     Get(form_data, "name", PyStr(<<"r", "e", "s", "u", "m", "e">>)),
                                     buf.body, page.html),
                   calls |-> <<"reportlab_pdf_bytes", "send_file">>]

download_pdf(req, weasy_available, weasy) ==
    LET fd   == json_loads(req.form_data_json)
        ai   == json_loads(req.ai_json)
        page == render_resume_html(req.template_choice, fd.value, ai.value)
        try  == weasy_attempt(fd.value, page, weasy)
        fb   == reportlab_fallback(fd.value, ai.value, page)
    IN  IF fd.exc # "" THEN [response |-> Raised(fd.exc, NoRender), calls |-> <<>>]
        ELSE IF ai.exc # "" THEN [response |-> Raised(ai.exc, NoRender), calls |-> <<>>]
        ELSE IF page.exc # ""
        THEN [response |-> Raised(page.exc, page.html), calls |-> <<"render_resume_html">>]
        ELSE IF weasy_available /\ try.returned
        THEN [response |-> try.response,
              calls |-> <<"render_resume_html", "weasyprint", "send_file">>]
        ELSE [response |-> fb.response,
              calls |-> <<"render_resume_html">>
                        \o (IF weasy_available THEN <<"weasyprint">> ELSE <<>>)
                        \o fb.calls]

(***************************************************************************)
(* generate_docx_bytes, src/app.py:109-134.                                *)
(***************************************************************************)
\* lines 125-128: whether the loop over the experiences runs without raising
experiences_ok(ai_struct) ==
    LET exs == Get(ai_struct, "experiences", PyList(<<>>))
    IN  /\ Iterable(exs)
        /\ exs.kind = "list" =>
              \A i \in 1..Len(exs.val) :
                  /\ HasGet(exs.val[i])
                  /\ Iterable(Get(exs.val[i], "bullets", PyList(<<>>)))
        /\ exs.kind = "str" => exs.val = <<>>
        /\ exs.kind = "dict" => DOMAIN exs.val = {}

generate_docx_bytes(form_data, ai_struct, available) ==
    IF ~available THEN [exc |-> "RuntimeError", body |-> NoBody]
    ELSE IF ~HasGet(form_data) \/ ~HasGet(ai_struct) \/ ~experiences_ok(ai_struct)
    THEN [exc |-> "AttributeError", body |-> NoBody]
    ELSE [exc  |-> "",
          body |-> [producer  |-> "python-docx",
                    heading   |-> Get(form_data, "name", PyStr(<<>>)),
                    subtitle  |-> Get(form_data, "title", PyStr(<<>>)),
                    summary   |-> Get(ai_struct, "summary", PyStr(<<>>)),
                    skills    |-> Get(ai_struct, "skills_line", PyStr(<<>>)),
                    entries   |-> Get(ai_struct, "experiences", PyList(<<>>)),
                    education |-> Get(form_data, "education", PyStr(<<>>)),
                    nonempty  |-> TRUE]]

(***************************************************************************)
(* download_docx, src/app.py:224-244.                                      *)
(***************************************************************************)
DOCX_MIME == "application/vnd.openxmlformats-officedocument.wordprocessingml.document"
TEXT_MIME == "text/plain"
NL == <<"\n">>
SKILLS_PREFIX == <<"S", "k", "i", "l", "l", "s", ":", " ">>

\* lines 235-242
fallback_text(form_data, ai_struct) ==
    py_str(Get(form_data, "name", PyStr(<<>>))) \o NL
        \o py_str(Get(form_data, "title", PyStr(<<>>))) \o NL \o NL
        \o py_str(Get(ai_struct, "summary", PyStr(<<>>))) \o NL \o NL
        \o SKILLS_PREFIX \o py_str(Get(ai_struct, "skills_line", PyStr(<<>>))) \o NL

\* line 230
takes_docx_path(available) == available

download_docx(req, docx_available) ==
    LET fd  == json_loads(req.form_data_json)
        ai  == json_loads(req.ai_json)
        buf == generate_docx_bytes(fd.value, ai.value, docx_available)
    IN  IF fd.exc # "" THEN [response |-> Raised(fd.exc, NoRender), calls |-> <<>>]
        ELSE IF ai.exc # "" THEN [response |-> Raised(ai.exc, NoRender), calls |-> <<>>]
        ELSE IF takes_docx_path(docx_available)
        THEN IF buf.exc # ""
             THEN [response |-> Raised(buf.exc, NoRender), calls |-> <<"generate_docx_bytes">>]
             ELSE [response |-> Sent(DOCX_MIME, ".docx",
                                     Get(fd.value, "name", PyStr(<<"r", "e", "s", "u", "m", "e">>)),
                                     buf.body, NoRender),
                   calls |-> <<"generate_docx_bytes", "send_file">>]
        ELSE IF ~HasGet(fd.value) \/ ~HasGet(ai.value)
        THEN [response |-> Raised("AttributeError", NoRender), calls |-> <<"text_fallback">>]
        ELSE [response |-> Sent(TEXT_MIME, ".txt",
                                Get(fd.value, "name", PyStr(<<"r", "e", "s", "u", "m", "e">>)),
                                [producer |-> "text", text |-> fallback_text(fd.value, ai.value),
                                 nonempty |-> fallback_text(fd.value, ai.value) # <<>>],
                                NoRender),
              calls |-> <<"text_fallback", "send_file">>]

(***************************************************************************)
(* Requests.                                                               *)
(***************************************************************************)
Ada == <<"A", "d", "a">>
Engineer == <<"E", "n", "g", "i", "n", "e", "e", "r">>
ExampleExperience == <<"A", "c", "m", "e", EMDASH, "E", "n", "g", "i", "n", "e", "e", "r", EMDASH, "2", "0", "2", "0", "-", "2", "0", "2", "2", EMDASH, "B", "u", "i", "l", "t", " ", "s", "y", "s", "t", "e", "m", "s", "|", "|", "G", "l", "o", "b", "e", "x", EMDASH, "L", "e", "a", "d", EMDASH, "2", "0", "2", "2", "-", "2", "0", "2", "3">>
ExampleSkills == <<"P", "y", "t", "h", "o", "n", ",", " ", ",", " ", "G", "o", " ", ",", "R", "u", "s", "t">>

RawForm(name, title, skills, experience) ==
    [name |-> name, title |-> title, skills |-> skills, experience |-> experience]

ExampleForm == RawForm(<<" ">> \o Ada, Engineer, ExampleSkills, ExampleExperience)
EmptyForm == RawForm(<<>>, <<>>, <<>>, <<>>)

IndexPost(form, apikey, template_choice) ==
    [route |-> "index", method |-> "POST", form |-> form, apikey |-> apikey,
     template_choice |-> template_choice,
     form_data_json |-> MissingField, ai_json |-> MissingField]

IndexGet ==
    [route |-> "index", method |-> "GET", form |-> EmptyForm, apikey |-> <<>>,
     template_choice |-> NoTemplate,
     form_data_json |-> MissingField, ai_json |-> MissingField]

Download(route, form_data_json, ai_json, template_choice) ==
    [route |-> route, method |-> "POST", form |-> EmptyForm, apikey |-> <<>>,
     template_choice |-> template_choice,
     form_data_json |-> form_data_json, ai_json |-> ai_json]

\* what the external API does if called
AIFailures == {[kind |-> "api_error", value |-> None], [kind |-> "malformed_json", value |-> None]}
ExampleStructure == ToPy(fallback_structure(collect_form(ExampleForm)))
AIAnswer ==
    PyDict([summary     |-> PyStr(<<"O", "K">>),
            experiences |-> PyList(<<>>),
            skills_line |-> PyStr(<<"G", "o">>)])
AIValues ==
    {AIAnswer, PyDict([summary |-> PyStr(<<"O", "K">>)]), EmptyDict, None,
     PyList(<<>>), PyList(<<PyInt(1)>>), PyInt(0), PyInt(7),
     PyStr(<<>>), PyStr(<<"x">>), PyBool(FALSE), PyBool(TRUE)}
AIOutcomes == AIFailures \cup {[kind |-> "json", value |-> v] : v \in AIValues}
NoWorld == [ai |-> [kind |-> "api_error", value |-> None], weasy |-> "ok"]

\* the values the posted form_data_json and ai_json parse to
FormDataValues ==
    {PyDict([name |-> PyStr(Ada), title |-> PyStr(Engineer), education |-> PyStr(<<"B", "S", "c">>)]),
     PyDict([title |-> PyStr(Engineer)]),
     EmptyDict, PyList(<<>>), None, PyStr(Ada)}
AiStructValues ==
    {ExampleStructure, AIAnswer, EmptyDict,
     PyDict([summary |-> PyInt(7), skills_line |-> PyStr(<<"G", "o">>)]),
     PyDict([summary |-> PyStr(<<"O", "K">>), experiences |-> PyInt(3)]),
     PyDict([summary |-> PyStr(<<"O", "K">>), experiences |-> PyList(<<PyStr(<<"x">>)>>)]),
     PyList(<<>>), None}
Fields(values) == {MissingField, MalformedField} \cup {JsonField(v) : v \in values}

ApiKeys == {<<>>, <<" ">>, <<"s", "k">>}
IndexTemplates == {"template1", "executive", "nope"}
DownloadTemplates == {"template1", "template_founder", "nope", NoTemplate}

IndexRequests ==
    {IndexGet} \cup
    {IndexPost(f, k, t) : f \in {ExampleForm, EmptyForm}, k \in ApiKeys, t \in IndexTemplates}
PdfRequests ==
    {Download("pdf", fd, ai, t) :
        fd \in Fields(FormDataValues), ai \in Fields(AiStructValues), t \in DownloadTemplates}
DocxRequests ==
    {Download("docx", fd, ai, NoTemplate) :
        fd \in Fields(FormDataValues), ai \in Fields(AiStructValues)}

(***************************************************************************)
(* The handlers as actions: one request is served per behaviour.           *)
(***************************************************************************)
Flags ==
    /\ OPENAI_AVAILABLE \in BOOLEAN
    /\ WEASY_AVAILABLE \in BOOLEAN
    /\ DOCX_AVAILABLE \in BOOLEAN

Fresh ==
    /\ pc = "start"
    /\ response = NoResponse
    /\ calls = <<>>

Init ==
    /\ Flags
    /\ Fresh
    /\ \/ request \in IndexRequests /\ world \in {[ai |-> o, weasy |-> "ok"] : o \in AIOutcomes}
       \/ request \in PdfRequests /\ world \in {[ai |-> NoWorld.ai, weasy |-> w] : w \in {"ok", "raise"}}
       \/ request \in DocxRequests /\ world = NoWorld

Finish(result) ==
    /\ response' = result.response
    /\ calls' = result.calls
    /\ pc' = "done"
    /\ UNCHANGED <<OPENAI_AVAILABLE, WEASY_AVAILABLE, DOCX_AVAILABLE, request, world>>

Index ==
    /\ pc = "start"
    /\ request.route = "index"
    /\ Finish(index(request, OPENAI_AVAILABLE, world.ai))

DownloadPdf ==
    /\ pc = "start"
    /\ request.route = "pdf"
    /\ Finish(download_pdf(request, WEASY_AVAILABLE, world.weasy))

DownloadDocx ==
    /\ pc = "start"
    /\ request.route = "docx"
    /\ Finish(download_docx(request, DOCX_AVAILABLE))

Next == Index \/ DownloadPdf \/ DownloadDocx

Spec == Init /\ [][Next]_vars

(***************************************************************************)
(* The Local Structurer on bounded inputs: POST / without an API key, so   *)
(* that index hands fallback_structure(form) to the renderer.              *)
(***************************************************************************)
\* every str over the characters of A of length at most n
Strs(A, n) == UNION {[1..k -> A] : k \in 0..n}

SkillChars == {"a", "b", ",", " "}
BlockChars == {"a", " ", "|"}
PartChars == {"a", "b", " ", EMDASH}
DescChars == <<"x", "y", "z">>

\* a description of n characters, the i-th being DescChars[(i + k) % 3 + 1]
Desc(n, k) == [i \in 1..n |-> DescChars[((i + k) % 3) + 1]]

NoKey(form) == IndexPost(form, <<>>, "template1")

SkillsRequests ==
    {NoKey(RawForm(Ada, Engineer, s, <<>>)) : s \in Strs(SkillChars, MaxSkillsLen) \cup {ExampleSkills}}

ExperienceRequests ==
    {NoKey(RawForm(Ada, Engineer, <<>>, e)) :
        e \in Strs(BlockChars, MaxBlocksLen) \cup Strs(PartChars, MaxPartsLen)
               \cup {x \o BARBAR \o y : x, y \in Strs(PartChars, 2)}
               \cup {ExampleExperience}}

BulletRequests ==
    {NoKey(RawForm(Ada, Engineer, <<>>, pre \o Desc(n, k) \o post)) :
        pre \in {<<"a", EMDASH, "b", EMDASH, "c", EMDASH>>,
                 <<"q", "|", "|", EMDASH, EMDASH, EMDASH, " ">>},
        post \in {<<>>, <<" ", "|", "|", "a">>, <<EMDASH, "w">>},
        n \in 0..MaxDescLen, k \in 0..2}

InitStructurer(requests) ==
    /\ OPENAI_AVAILABLE \in BOOLEAN
    /\ WEASY_AVAILABLE = FALSE
    /\ DOCX_AVAILABLE = FALSE
    /\ Fresh
    /\ request \in requests
    /\ world = NoWorld

SpecSkills == InitStructurer(SkillsRequests) /\ [][Index]_vars
SpecExperience == InitStructurer(ExperienceRequests) /\ [][Index]_vars
SpecBullet == InitStructurer(BulletRequests) /\ [][Index]_vars

(***************************************************************************)
(* Reading a finished request.                                             *)
(***************************************************************************)
Done == pc = "done"

\* the inverse of ToPy
FromPy(v) ==
    [summary     |-> v.val.summary.val,
     experiences |-> [i \in 1..Len(v.val.experiences.val) |->
         LET e == v.val.experiences.val[i].val
         IN  [company |-> e.company.val, role |-> e.role.val, dates |-> e.dates.val,
              bullets |-> [j \in 1..Len(e.bullets.val) |-> e.bullets.val[j].val]]],
     skills_line |-> v.val.skills_line.val]

\* the form and the structure POST / handed to the Template Renderer
HandedForm == response.rendered.form
Handed == FromPy(response.rendered.ai)

\* the "||"-blocks of the form's experience_raw, and those that are non-empty
\* after trimming
Blocks == split(HandedForm.experience_raw, BARBAR)
KeptBlocks == {i \in DOMAIN Blocks : strip(Blocks[i]) # <<>>}
Rank(S, i) == Cardinality({j \in S : j <= i})

\* the k-th em-dash-separated, trimmed part of a block, "" when it is missing
Part(block, k) ==
    LET parts == split(strip(block), DASH)
    IN  IF k <= Len(parts) THEN strip(parts[k]) ELSE <<>>

\* the comma-separated tokens of the form's skills, and those that are
\* non-empty after trimming
Tokens == split(HandedForm.skills, COMMA)
KeptTokens == {i \in DOMAIN Tokens : strip(Tokens[i]) # <<>>}

(***************************************************************************)
(* C5.  fallback_structure produces exactly one ExperienceEntry per        *)
(* "||"-block that is non-empty after trimming, in the blocks' order;      *)
(* empty and whitespace-only blocks produce none.                          *)
(***************************************************************************)
C5_OneEntryPerNonEmptyBlock ==
    Done =>
        /\ Len(Handed.experiences) = Cardinality(KeptBlocks)
        /\ \A i \in KeptBlocks :
              LET e == Handed.experiences[Rank(KeptBlocks, i)]
              IN  /\ e.company = Part(Blocks[i], 1)
                  /\ e.role = Part(Blocks[i], 2)
                  /\ e.dates = Part(Blocks[i], 3)

\* two entries from three blocks, the dropped block being blank
C5_Witness ==
    /\ Done
    /\ Len(Blocks) = 3
    /\ Cardinality(KeptBlocks) = 2
    /\ \E i \in DOMAIN Blocks : Blocks[i] # <<>> /\ i \notin KeptBlocks
    /\ Len(Handed.experiences) = 2

(***************************************************************************)
(* C6.  skills_line is the ", "-joined sequence of the trimmed, non-empty  *)
(* comma-separated tokens of the skills, in their order, and holds no      *)
(* empty token; "Python, , Go ,Rust" gives "Python, Go, Rust".             *)
(***************************************************************************)
ExampleSkillsLine == <<"P", "y", "t", "h", "o", "n", ",", " ", "G", "o", ",", " ", "R", "u", "s", "t">>

C6_SkillsLineFiltered ==
    Done =>
        LET line   == Handed.skills_line
            listed == split(line, COMMA_SPACE)
        IN  /\ (line = <<>>) <=> (KeptTokens = {})
            /\ line # <<>> =>
                  /\ Len(listed) = Cardinality(KeptTokens)
                  /\ \A i \in KeptTokens : listed[Rank(KeptTokens, i)] = strip(Tokens[i])
                  /\ \A t \in DOMAIN split(line, COMMA) : strip(split(line, COMMA)[t]) # <<>>
            /\ request.form.skills = ExampleSkills => line = ExampleSkillsLine

\* a skills string with an empty token between two kept ones
C6_Witness ==
    /\ Done
    /\ Len(Tokens) = 3
    /\ KeptTokens = {1, 3}
    /\ Tokens[2] # <<>>
    /\ Len(split(Handed.skills_line, COMMA_SPACE)) = 2

(***************************************************************************)
(* C7.  The first bullet of a block with a non-empty description d is d    *)
(* itself when len(d) <= 120, else d's first 117 characters followed by    *)
(* "...", 120 characters in all; it never exceeds 120 characters.          *)
(***************************************************************************)
C7_BulletTruncation ==
    Done =>
        \A i \in KeptBlocks :
            LET d == Part(Blocks[i], 4)
                b == Handed.experiences[Rank(KeptBlocks, i)].bullets[1]
            IN  d # <<>> =>
                  /\ Len(b) <= 120
                  /\ Len(d) <= 120 => b = d
                  /\ Len(d) > 120 =>
                        /\ Len(b) = 120
                        /\ SubSeq(b, 1, 117) = SubSeq(d, 1, 117)
                        /\ SubSeq(b, 118, 120) = <<".", ".", ".">>

\* a description of 121 characters, cut to 120
C7_Witness ==
    /\ Done
    /\ \E i \in KeptBlocks :
          /\ Len(Part(Blocks[i], 4)) = 121
          /\ Len(Handed.experiences[Rank(KeptBlocks, i)].bullets[1]) = 120

(***************************************************************************)
(* C9.  Every entry has exactly three bullets: the one derived from the    *)
(* block's description or, when that is missing or empty, "Served as       *)
(* {role} at {company}"; then "Delivered key results"; then                *)
(* "Collaborated across teams".  The example of two blocks gives the first *)
(* bullets "Built systems" and "Served as Lead at Globex".                 *)
(***************************************************************************)
BuiltSystems == <<"B", "u", "i", "l", "t", " ", "s", "y", "s", "t", "e", "m", "s">>
ServedAsLeadAtGlobex == <<"S", "e", "r", "v", "e", "d", " ", "a", "s", " ", "L", "e", "a", "d", " ", "a", "t", " ", "G", "l", "o", "b", "e", "x">>
DeliveredKeyResults == <<"D", "e", "l", "i", "v", "e", "r", "e", "d", " ", "k", "e", "y", " ", "r", "e", "s", "u", "l", "t", "s">>
CollaboratedAcrossTeams == <<"C", "o", "l", "l", "a", "b", "o", "r", "a", "t", "e", "d", " ", "a", "c", "r", "o", "s", "s", " ", "t", "e", "a", "m", "s">>

C9_ThreeBullets ==
    Done =>
        /\ \A i \in KeptBlocks :
              LET bs == Handed.experiences[Rank(KeptBlocks, i)].bullets
                  d  == Part(Blocks[i], 4)
              IN  /\ Len(bs) = 3
                  /\ d # <<>> => bs[1] = IF Len(d) <= 120 THEN d
                                        ELSE SubSeq(d, 1, 117) \o <<".", ".", ".">>
                  /\ d = <<>> => bs[1] = <<"S", "e", "r", "v", "e", "d", " ", "a", "s", " ">>
                                             \o Part(Blocks[i], 2) \o <<" ", "a", "t", " ">>
                                             \o Part(Blocks[i], 1)
                  /\ bs[2] = DeliveredKeyResults
                  /\ bs[3] = CollaboratedAcrossTeams
        /\ request.form.experience = ExampleExperience =>
              /\ Len(Handed.experiences) = 2
              /\ Handed.experiences[1].bullets[1] = BuiltSystems
              /\ Handed.experiences[2].bullets[1] = ServedAsLeadAtGlobex

\* the example: a block with a description and a block without one
C9_Witness ==
    /\ Done
    /\ request.form.experience = ExampleExperience
    /\ Len(Handed.experiences) = 2
    /\ Handed.experiences[2].bullets[1] = ServedAsLeadAtGlobex

(***************************************************************************)
(* C10.  summary is "{title} with experience in {S}." where S lists the    *)
(* first min(3, n) of the n skills that skills_line lists, in order.       *)
(***************************************************************************)
C10_SummaryListsFirstSkills ==
    Done =>
        LET listed == IF Handed.skills_line = <<>> THEN <<>>
                      ELSE split(Handed.skills_line, COMMA_SPACE)
        IN  Handed.summary =
                HandedForm.title \o <<" ", "w", "i", "t", "h", " ", "e", "x", "p", "e", "r", "i", "e", "n", "c", "e", " ", "i", "n", " ">>
                    \o join(COMMA_SPACE, Prefix(listed, 3)) \o <<".">>

(***************************************************************************)
(* Reading a finished POST / request.                                      *)
(***************************************************************************)
IndexPosted == Done /\ request.route = "index" /\ request.method = "POST"

\* line 187: the handler calls call_openai_for_resume
Asked == strip(request.apikey) # <<>> /\ OPENAI_AVAILABLE

AIFailed == world.ai.kind \in {"api_error", "malformed_json"}
AIParsed == world.ai.kind = "json"

LocalStructure == ToPy(fallback_structure(collect_form(request.form)))

TemplateExists ==
    (IF request.template_choice \in DOMAIN TPL_MAP THEN TPL_MAP[request.template_choice]
     ELSE request.template_choice) \in TemplateFiles

Count(seq, x) == Cardinality({i \in DOMAIN seq : seq[i] = x})

(***************************************************************************)
(* C3.  In POST /, when the API key is empty, the AI capability is         *)
(* unavailable or the AI call fails (API error, text that is not JSON),    *)
(* call_openai_for_resume gives None without raising, the structure handed *)
(* to the Template Renderer is fallback_structure(form), never absent, and *)
(* no error of the AI call reaches the user.                               *)
(***************************************************************************)
C3_AIFailureFallsBack ==
    (IndexPosted /\ (~Asked \/ AIFailed)) =>
        /\ LET r == call_openai_for_resume(strip(request.apikey), OPENAI_AVAILABLE, world.ai)
           IN  r.ret = None /\ r.exc = ""
        /\ response.exc \notin {"OpenAIError", "JSONDecodeError"}
        /\ response.rendered # NoRender
        /\ response.rendered.ai = LocalStructure
        /\ response.rendered.ai # None
        /\ TemplateExists => response.status = "ok"

\* the API was called, answered with text that is not JSON, and the page
\* was rendered from the local structure
C3_Witness ==
    /\ IndexPosted
    /\ Asked
    /\ world.ai.kind = "malformed_json"
    /\ calls = <<"openai", "fallback_structure", "render_resume_html">>
    /\ response.status = "ok"
    /\ response.rendered.ai = LocalStructure

(***************************************************************************)
(* C4.  As claimed: whenever the AI call succeeds and its text parses as   *)
(* JSON, the structure handed to the Template Renderer is the parsed       *)
(* value, never the Local Structurer's output.                             *)
(***************************************************************************)
C4_ParsedUsedAsIs ==
    (IndexPosted /\ Asked /\ AIParsed) =>
        /\ response.rendered # NoRender
        /\ response.rendered.ai = world.ai.value
        /\ Count(calls, "fallback_structure") = 0

(***************************************************************************)
(* C4, amended.  A parsed value that Python holds true (a non-empty        *)
(* object, array or string, a non-zero number, true) is handed to the      *)
(* Template Renderer as it is, whatever its shape; a parsed value Python   *)
(* holds false (null, {}, [], "", 0, false) is replaced by                 *)
(* fallback_structure(form).                                               *)
(***************************************************************************)
C4_TruthyParsedUsedAsIs ==
    (IndexPosted /\ Asked /\ AIParsed) =>
        /\ response.rendered # NoRender
        /\ Truthy(world.ai.value) =>
              /\ response.rendered.ai = world.ai.value
              /\ Count(calls, "fallback_structure") = 0
        /\ ~Truthy(world.ai.value) =>
              /\ response.rendered.ai = LocalStructure
              /\ Count(calls, "fallback_structure") = 1

\* the API answered with a JSON number, which was handed on unvalidated
C4_Witness ==
    /\ IndexPosted
    /\ Asked
    /\ AIParsed
    /\ world.ai.value = PyInt(7)
    /\ response.status = "ok"
    /\ response.rendered.ai = PyInt(7)
    /\ calls = <<"openai", "render_resume_html">>

(***************************************************************************)
(* Reading a finished download request.                                    *)
(***************************************************************************)
Parsable == request.form_data_json.kind = "json" /\ request.ai_json.kind = "json"
PostedForm == request.form_data_json.value
PostedStruct == request.ai_json.value

\* the try block of download_pdf did not return: write_pdf() raised, or the
\* download name could not be read from what form_data_json parsed to
WeasyFailed == world.weasy = "raise" \/ ~HasGet(PostedForm)

Fallbacks == {"fallback_structure", "reportlab_pdf_bytes", "text_fallback"}
Contains(text, x) == x = <<>> \/ find(text, x) # 0

(***************************************************************************)
(* C1.  download_pdf always succeeds: for every request whose              *)
(* form_data_json and ai_json parse as JSON, whether the primary renderer  *)
(* is unavailable, succeeds or raises, the handler returns a non-empty     *)
(* application/pdf body and never ends in an unhandled error.              *)
(***************************************************************************)
C1_PdfAlwaysReturned ==
    (Done /\ request.route = "pdf" /\ Parsable) =>
        /\ response.status = "ok"
        /\ response.exc = ""
        /\ response.mimetype = PDF_MIME
        /\ response.ext = ".pdf"
        /\ response.body.producer \in {"weasyprint", "reportlab"}
        /\ response.body.nonempty

(***************************************************************************)
(* C2.  download_docx always returns bytes whose content type and          *)
(* extension match what was produced: a .docx attachment of the DOCX type  *)
(* built by generate_docx_bytes when the capability is present, a .txt     *)
(* attachment of type text/plain holding name, title, summary and skills   *)
(* line when it is absent; generate_docx_bytes is not invoked then.        *)
(***************************************************************************)
C2_DocxAlwaysReturnedAsProduced ==
    (Done /\ request.route = "docx" /\ Parsable) =>
        /\ response.status = "ok"
        /\ response.body.nonempty
        /\ DOCX_AVAILABLE =>
              /\ response.ext = ".docx"
              /\ response.mimetype = DOCX_MIME
              /\ response.body.producer = "python-docx"
        /\ ~DOCX_AVAILABLE =>
              /\ response.ext = ".txt"
              /\ response.mimetype = TEXT_MIME
              /\ response.body.producer = "text"
              /\ \A k \in {"name", "title"} :
                    Contains(response.body.text, py_str(Get(PostedForm, k, PyStr(<<>>))))
              /\ \A k \in {"summary", "skills_line"} :
                    Contains(response.body.text, py_str(Get(PostedStruct, k, PyStr(<<>>))))
              /\ Count(calls, "generate_docx_bytes") = 0

(***************************************************************************)
(* The part of C2 that every returned export meets: type and extension     *)
(* match the producer, and generate_docx_bytes runs only with the          *)
(* capability present.                                                     *)
(***************************************************************************)
DocxTypeMatchesWhenReturned ==
    (Done /\ request.route = "docx") =>
        /\ response.status = "ok" =>
              /\ response.body.producer = "python-docx" <=>
                    (response.ext = ".docx" /\ response.mimetype = DOCX_MIME)
              /\ response.body.producer = "text" <=>
                    (response.ext = ".txt" /\ response.mimetype = TEXT_MIME)
              /\ response.body.producer = "python-docx" <=> DOCX_AVAILABLE
        /\ Count(calls, "generate_docx_bytes") > 0 => DOCX_AVAILABLE

(***************************************************************************)
(* C8.  As claimed: no retries.  Within one request the AI call, the       *)
(* primary PDF renderer and each fallback run at most once; a fallback     *)
(* runs only after its primary path was unavailable or failed (the Local   *)
(* Structurer after an absent AI result, the minimal PDF after primary     *)
(* failure or unavailability, plain text when DOCX is unavailable), and    *)
(* never after the primary path returned a result to the client.           *)
(***************************************************************************)
OnePass ==
    /\ \A x \in {"openai", "weasyprint", "generate_docx_bytes", "send_file"} \cup Fallbacks :
          Count(calls, x) <= 1
    /\ \A i, j \in DOMAIN calls : (calls[i] = "send_file" /\ i < j) => calls[j] \notin Fallbacks
    /\ Count(calls, "reportlab_pdf_bytes") > 0 =>
          /\ request.route = "pdf"
          /\ ~WEASY_AVAILABLE \/ WeasyFailed
          /\ response.body.producer # "weasyprint"
    /\ Count(calls, "text_fallback") > 0 =>
          /\ request.route = "docx"
          /\ ~DOCX_AVAILABLE
          /\ Count(calls, "generate_docx_bytes") = 0

C8_NoRetries ==
    Done =>
        /\ OnePass
        /\ Count(calls, "fallback_structure") > 0 =>
              /\ IndexPosted
              /\ ~Asked \/ AIFailed \/ world.ai.value = None

(***************************************************************************)
(* C8, amended.  The same, except that the Local Structurer runs after an  *)
(* absent or a false AI result: exactly when the AI call was not made,     *)
(* failed, or succeeded with a JSON value Python holds false (null, {},    *)
(* [], "", 0, false).                                                      *)
(***************************************************************************)
C8_NoRetriesFalsyIncluded ==
    Done =>
        /\ OnePass
        /\ Count(calls, "fallback_structure") > 0 =>
              /\ IndexPosted
              /\ ~Asked \/ AIFailed \/ ~Truthy(world.ai.value)
        /\ Count(calls, "openai") > 0 => IndexPosted /\ Asked
        /\ Count(calls, "weasyprint") > 0 => request.route = "pdf" /\ WEASY_AVAILABLE

\* the primary PDF renderer raised once and the minimal PDF was sent once
C8_Witness ==
    /\ Done
    /\ request.route = "pdf"
    /\ WEASY_AVAILABLE
    /\ world.weasy = "raise"
    /\ calls = <<"render_resume_html", "weasyprint", "reportlab_pdf_bytes", "send_file">>
    /\ response.body.producer = "reportlab"

====
